---- MODULE Spec2Model ----
(***************************************************************************)
(* Client-side set operations of arkouda (arkouda/pdarraysetops.py):       *)
(* unique, in1d, concatenate, union1d, intersect1d, setdiff1d, setxor1d.   *)
(* Every action is one whole call of a public operation.  The state after  *)
(* the action records the call (op, args, flag), the commands it submitted *)
(* to the remote executor, the handles those commands created, how the     *)
(* call ended and what it returned.                                        *)
(***************************************************************************)
EXTENDS Integers, Sequences, FiniteSets, TLC

VARIABLES op, args, flag, cmds, created, status, result, locals

vars == <<op, args, flag, cmds, created, status, result, locals>>

---------------------------------------------------------------------------
(* Bounds of the model *)

\* longest input array of a value-level call
MaxLen == 2
\* array elements are 1..MaxVal
MaxVal == 3
\* longest list handed to concatenate
MaxArrays == 2
\* longest input array of a call in which a command may fail
MaxFailLen == 1
\* array elements of such a call are 1..MaxFailVal
MaxFailVal == 1
\* a call may fail at its 1st .. MaxFailPoint-th command
MaxFailPoint == 15
\* longest array in a list handed to concatenate, and longest operand that
\* is not a pdarray
MaxCatLen == 1
\* elements of those arrays are 1..MaxCatVal
MaxCatVal == 1

---------------------------------------------------------------------------
(* Array values and handles *)

Seqs(L, V) == UNION {[1..n -> 1..V] : n \in 0..L}

\* str.format of a Python bool
PyBool(b) == IF b THEN "True" ELSE "False"

\* identifier of the k-th array the executor creates during a call
SrvName(k) == "id_" \o ToString(k)

\* identifier of the i-th argument of a call
InName(i) == "in_" \o ToString(i)

Handle(ot, dt, nm, off, by, v) ==
    [objtype |-> ot, dtype |-> dt, name |-> nm, offsets |-> off, bytes |-> by, val |-> v]

NoHandle == Handle("None", "None", "", "", "", <<>>)

create_pdarray(nm, dt, v) == Handle("pdarray", dt, nm, "", "", v)

Strings(off, by, v) == Handle("str", "str", "", off, by, v)

Categorical(nm, v) == Handle("Categorical", "category", nm, "", "", v)

size(h) == Len(h.val)

\* isinstance(x, pdarray), isinstance(x, Strings)
IsPdarray(h) == h.objtype = "pdarray"
IsStrings(h) == h.objtype = "str"

\* hasattr(x, 'unique' | 'in1d' | 'concatenate'): of the accepted kinds only
\* Categorical carries set-operation methods of its own
HasAttr(h, method) == h.objtype = "Categorical"

\* pda.dtype == int
IsInt(h) == h.dtype = "int64"

Dtypes == {"int64", "float64"}

PdIn(i, L, V) == {create_pdarray(InName(i), dt, v) : dt \in Dtypes, v \in Seqs(L, V)}
StrIn(i, L, V) == {Strings(InName(i) \o "_off", InName(i) \o "_bytes", v) : v \in Seqs(L, V)}
CatIn(i, L, V) == {Categorical(InName(i), v) : v \in Seqs(L, V)}
AnyIn(i, L, V) == PdIn(i, L, V) \cup StrIn(i, L, V) \cup CatIn(i, L, V)
\* operands of the four pdarray-only operations: every pdarray, and a few
\* handles of the other kinds
SetIn(i, L, V) ==
    PdIn(i, L, V) \cup StrIn(i, MaxCatLen, MaxCatVal) \cup CatIn(i, MaxCatLen, MaxCatVal)

\* the lists of exactly k handles, the i-th one named as argument i
RECURSIVE ExactLists(_, _, _)
ExactLists(k, L, V) ==
    IF k = 0 THEN {<<>>}
    ELSE {Append(l, h) : l \in ExactLists(k - 1, L, V), h \in AnyIn(k, L, V)}

\* order in which the executor returns the unique values of a non-integer array
Policies == {"sorted", "first", "reversed"}

---------------------------------------------------------------------------
(* Element-wise computations performed by the executor *)

ValSet(v) == {v[i] : i \in 1..Len(v)}

SortedSeq(S) ==
    [k \in 1..Cardinality(S) |-> CHOOSE x \in S : Cardinality({y \in S : y < x}) = k - 1]

Reverse(v) == [i \in 1..Len(v) |-> v[Len(v) + 1 - i]]

\* v[mask] for a 0/1 mask of the same length
RECURSIVE Compress(_, _)
Compress(v, mask) ==
    IF Len(v) = 0 THEN <<>>
    ELSE IF mask[1] = 1 THEN <<v[1]>> \o Compress(Tail(v), Tail(mask))
    ELSE Compress(Tail(v), Tail(mask))

FirstOcc(v) ==
    Compress(v, [i \in 1..Len(v) |-> IF \E j \in 1..(i - 1) : v[j] = v[i] THEN 0 ELSE 1])

SrvUnique(v, dt, policy) ==
    IF dt = "int64" \/ policy = "sorted" THEN SortedSeq(ValSet(v))
    ELSE IF policy = "first" THEN FirstOcc(v)
    ELSE Reverse(SortedSeq(ValSet(v)))

SrvCounts(v, u) == [k \in 1..Len(u) |-> Cardinality({i \in 1..Len(v) : v[i] = u[k]})]

B2I(b) == IF b THEN 1 ELSE 0

SrvIn1d(v1, v2, invert) ==
    [i \in 1..Len(v1) |-> B2I((v1[i] \in ValSet(v2)) # invert)]

\* stable sorting permutation
Rank(v, i) ==
    1 + Cardinality({j \in 1..Len(v) : v[j] < v[i] \/ (v[j] = v[i] /\ j < i)})
SrvArgsort(v) == [k \in 1..Len(v) |-> CHOOSE i \in 1..Len(v) : Rank(v, i) = k]

SrvGather(v, idx) == [k \in 1..Len(idx) |-> v[idx[k]]]

RECURSIVE Flatten(_)
Flatten(vs) == IF Len(vs) = 0 THEN <<>> ELSE vs[1] \o Flatten(Tail(vs))

SrvConcat(vs, mode, policy) ==
    IF mode = "append" \/ policy = "sorted" THEN Flatten(vs) ELSE Flatten(Reverse(vs))

---------------------------------------------------------------------------
(* The remote executor, as seen by one call *)

Ctx0(failAt, policy) ==
    [cmds |-> <<>>, created |-> <<>>, err |-> "", failAt |-> failAt, policy |-> policy]

Ret(ctx, out) == [ctx |-> ctx, out |-> out, loc |-> [aux |-> <<>>, flag |-> <<>>]]

Raise(ctx, e) == [ctx EXCEPT !.err = IF @ = "" THEN e ELSE @]

Out1(r) == IF Len(r.out) >= 1 THEN r.out[1] ELSE NoHandle

\* submit one command; the reply has nseg segments, one identifier each
generic_msg(ctx, cmd, nseg) ==
    IF ctx.err # "" THEN [ctx |-> ctx, rep |-> <<>>]
    ELSE IF Len(ctx.cmds) + 1 = ctx.failAt
    THEN [ctx |-> [ctx EXCEPT !.cmds = Append(@, cmd), !.err = "RuntimeError"],
          rep |-> <<>>]
    ELSE LET rep == [i \in 1..nseg |-> SrvName(Len(ctx.created) + i)]
         IN  [ctx |-> [ctx EXCEPT !.cmds = Append(@, cmd), !.created = @ \o rep],
              rep |-> rep]

---------------------------------------------------------------------------
(* Array helpers the compositions call: each is one round trip *)

\* arkouda.sorting.argsort
argsort(ctx, pda) ==
    LET r == generic_msg(ctx, <<"argsort", pda.name>>, 1)
    IN  IF r.ctx.err # "" THEN Ret(r.ctx, <<>>)
        ELSE Ret(r.ctx, <<create_pdarray(r.rep[1], "int64", SrvArgsort(pda.val))>>)

\* pdarray.__getitem__ with a pdarray key: gather by index, or boolean mask
Index(ctx, pda, key) ==
    LET r == generic_msg(ctx, <<"[pdarray]", pda.name, key.name>>, 1)
    IN  IF r.ctx.err # "" THEN Ret(r.ctx, <<>>)
        ELSE IF key.dtype = "bool"
        THEN IF Len(key.val) # Len(pda.val) THEN Ret(Raise(r.ctx, "ValueError"), <<>>)
             ELSE Ret(r.ctx, <<create_pdarray(r.rep[1], pda.dtype, Compress(pda.val, key.val))>>)
        ELSE Ret(r.ctx, <<create_pdarray(r.rep[1], pda.dtype, SrvGather(pda.val, key.val))>>)

\* pdarray.__getitem__ with a slice; lo..hi are the 1-based positions kept
Slice(ctx, pda, lo, hi) ==
    LET r == generic_msg(ctx, <<"[slice]", pda.name, ToString(lo - 1), ToString(hi)>>, 1)
    IN  IF r.ctx.err # "" THEN Ret(r.ctx, <<>>)
        ELSE Ret(r.ctx, <<create_pdarray(r.rep[1], pda.dtype, SubSeq(pda.val, lo, hi))>>)

\* pda[1:]
SliceTail(ctx, pda) == Slice(ctx, pda, 2, size(pda))
\* pda[:-1]
SliceFront(ctx, pda) == Slice(ctx, pda, 1, size(pda) - 1)

BinVal(opname, x, y) ==
    IF opname = "==" THEN B2I(x = y)
    ELSE IF opname = "!=" THEN B2I(x # y)
    ELSE B2I(x = 1 /\ y = 1)

\* pdarray.__eq__, __ne__, __and__
BinOp(ctx, opname, l, r) ==
    IF ctx.err = "" /\ size(l) # size(r) THEN Ret(Raise(ctx, "ValueError"), <<>>)
    ELSE LET m == generic_msg(ctx, <<"binopvv", opname, l.name, r.name>>, 1)
         IN  IF m.ctx.err # "" THEN Ret(m.ctx, <<>>)
             ELSE Ret(m.ctx, <<create_pdarray(m.rep[1], "bool",
                                 [i \in 1..size(l) |-> BinVal(opname, l.val[i], r.val[i])])>>)

\* arkouda.pdarraycreation.array
array(ctx, v) ==
    LET r == generic_msg(ctx, <<"array", "bool", ToString(Len(v))>>, 1)
    IN  IF r.ctx.err # "" THEN Ret(r.ctx, <<>>)
        ELSE Ret(r.ctx, <<create_pdarray(r.rep[1], "bool", v)>>)

\* arkouda.pdarraycreation.zeros_like
zeros_like(ctx, pda) ==
    Ret(ctx, <<create_pdarray("zeros", pda.dtype, [i \in 1..size(pda) |-> 0])>>)

---------------------------------------------------------------------------
(* Methods of Categorical the operations delegate to *)

\* pda.unique(): the kind's own fast path, with return_counts at its default
CategoricalUnique(ctx, pda) ==
    LET r == generic_msg(ctx, <<"unique", pda.objtype, pda.name, PyBool(FALSE)>>, 1)
    IN  IF r.ctx.err # "" THEN Ret(r.ctx, <<>>)
        ELSE Ret(r.ctx, <<Categorical(r.rep[1], SrvUnique(pda.val, pda.dtype, ctx.policy))>>)

\* pda1.in1d(pda2): membership, not inverted
CategoricalIn1d(ctx, pda1, pda2) ==
    LET r == generic_msg(ctx, <<"Categorical.in1d">>, 1)
    IN  IF r.ctx.err # "" THEN Ret(r.ctx, <<>>)
        ELSE Ret(r.ctx, <<create_pdarray(r.rep[1], "bool", SrvIn1d(pda1.val, pda2.val, FALSE))>>)

\* arrays[0].concatenate(arrays[1:], ordered=ordered)
CategoricalConcatenate(ctx, first, others, ordered) ==
    LET r == generic_msg(ctx, <<"Categorical.concatenate">>, 1)
    IN  IF r.ctx.err # "" THEN Ret(r.ctx, <<>>)
        ELSE Ret(r.ctx, <<Categorical(r.rep[1], SrvConcat(
                 <<first.val>> \o [i \in 1..Len(others) |-> others[i].val],
                 IF ordered THEN "append" ELSE "interleave", ctx.policy))>>)

---------------------------------------------------------------------------
(* unique *)

\* segments of the executor's reply to a unique command
UniqueReplySegs(cmd) ==
    (IF cmd[2] = "str" THEN 2 ELSE 1) + (IF cmd[4] = "True" THEN 1 ELSE 0)

unique(ctx, pda, return_counts) ==
    IF ctx.err # "" THEN Ret(ctx, <<>>)
    ELSE IF HasAttr(pda, "unique") THEN CategoricalUnique(ctx, pda)
    ELSE IF IsPdarray(pda) THEN
        LET cmd == <<"unique", pda.objtype, pda.name, PyBool(return_counts)>>
            r   == generic_msg(ctx, cmd, UniqueReplySegs(cmd))
            vc  == r.rep
            u   == SrvUnique(pda.val, pda.dtype, ctx.policy)
        IN  IF r.ctx.err # "" THEN Ret(r.ctx, <<>>)
            ELSE IF return_counts
            THEN IF Len(vc) < 2 THEN Ret(Raise(r.ctx, "IndexError"), <<>>)
                 ELSE Ret(r.ctx, <<create_pdarray(vc[1], pda.dtype, u),
                                   create_pdarray(vc[2], "int64", SrvCounts(pda.val, u))>>)
            ELSE IF Len(vc) # 1 THEN Ret(Raise(r.ctx, "ValueError"), <<>>)
                 ELSE Ret(r.ctx, <<create_pdarray(vc[1], pda.dtype, u)>>)
    ELSE IF IsStrings(pda) THEN
        LET name == pda.offsets \o "+" \o pda.bytes
            cmd  == <<"unique", pda.objtype, name, PyBool(return_counts)>>
            r    == generic_msg(ctx, cmd, UniqueReplySegs(cmd))
            vc   == r.rep
            u    == SrvUnique(pda.val, pda.dtype, ctx.policy)
        IN  IF r.ctx.err # "" THEN Ret(r.ctx, <<>>)
            ELSE IF return_counts
            THEN IF Len(vc) < 3 THEN Ret(Raise(r.ctx, "IndexError"), <<>>)
                 ELSE Ret(r.ctx, <<Strings(vc[1], vc[2], u),
                                   create_pdarray(vc[3], "int64", SrvCounts(pda.val, u))>>)
            ELSE IF Len(vc) < 2 THEN Ret(Raise(r.ctx, "IndexError"), <<>>)
                 ELSE Ret(r.ctx, <<Strings(vc[1], vc[2], u)>>)
    ELSE Ret(Raise(ctx, "TypeError"), <<>>)

---------------------------------------------------------------------------
(* in1d *)

\* the pdarray branch taken on the first operand's kind alone
in1d_Pd1Only(ctx, pda1, pda2, invert) ==
    IF ctx.err # "" THEN Ret(ctx, <<>>)
    ELSE IF HasAttr(pda1, "in1d") THEN CategoricalIn1d(ctx, pda1, pda2)
    ELSE IF IsPdarray(pda1) THEN
        LET r == generic_msg(ctx, <<"in1d", pda1.name, pda2.name, PyBool(invert)>>, 1)
        IN  IF r.ctx.err # "" THEN Ret(r.ctx, <<>>)
            ELSE Ret(r.ctx, <<create_pdarray(r.rep[1], "bool",
                               SrvIn1d(pda1.val, pda2.val, invert))>>)
    ELSE IF IsStrings(pda1) /\ IsStrings(pda2) THEN
        LET r == generic_msg(ctx, <<"segmentedIn1d", pda1.objtype, pda1.offsets, pda1.bytes,
                                    pda2.objtype, pda2.offsets, pda2.bytes, PyBool(invert)>>, 1)
        IN  IF r.ctx.err # "" THEN Ret(r.ctx, <<>>)
            ELSE Ret(r.ctx, <<create_pdarray(r.rep[1], "bool",
                               SrvIn1d(pda1.val, pda2.val, invert))>>)
    ELSE Ret(Raise(ctx, "TypeError"), <<>>)

in1d(ctx, pda1, pda2, invert) ==
    IF ctx.err # "" THEN Ret(ctx, <<>>)
    ELSE IF HasAttr(pda1, "in1d") THEN CategoricalIn1d(ctx, pda1, pda2)
    ELSE IF IsPdarray(pda1) /\ IsPdarray(pda2) THEN
        LET r == generic_msg(ctx, <<"in1d", pda1.name, pda2.name, PyBool(invert)>>, 1)
        IN  IF r.ctx.err # "" THEN Ret(r.ctx, <<>>)
            ELSE Ret(r.ctx, <<create_pdarray(r.rep[1], "bool",
                               SrvIn1d(pda1.val, pda2.val, invert))>>)
    ELSE IF IsStrings(pda1) /\ IsStrings(pda2) THEN
        LET r == generic_msg(ctx, <<"segmentedIn1d", pda1.objtype, pda1.offsets, pda1.bytes,
                                    pda2.objtype, pda2.offsets, pda2.bytes, PyBool(invert)>>, 1)
        IN  IF r.ctx.err # "" THEN Ret(r.ctx, <<>>)
            ELSE Ret(r.ctx, <<create_pdarray(r.rep[1], "bool",
                               SrvIn1d(pda1.val, pda2.val, invert))>>)
    ELSE Ret(Raise(ctx, "TypeError"), <<>>)

---------------------------------------------------------------------------
(* concatenate *)

LoopInit == [objtype |-> "None", dtype |-> "None", names |-> <<>>, size |-> 0, err |-> ""]

\* one pass of the for loop over arrays
LoopStep(st, a) ==
    IF ~IsPdarray(a) /\ ~IsStrings(a) THEN [st EXCEPT !.err = "TypeError"]
    ELSE LET objtype == IF st.objtype = "None" THEN a.objtype ELSE st.objtype
         IN  IF objtype = "pdarray" THEN
                 IF st.dtype = "None"
                 THEN [st EXCEPT !.objtype = objtype, !.dtype = a.dtype,
                                 !.names = Append(@, a.name), !.size = @ + size(a)]
                 ELSE IF st.dtype # a.dtype THEN [st EXCEPT !.err = "ValueError"]
                 ELSE [st EXCEPT !.objtype = objtype,
                                 !.names = Append(@, a.name), !.size = @ + size(a)]
             ELSE IF objtype = "str" THEN
                 IF ~IsStrings(a) THEN [st EXCEPT !.err = "AttributeError"]
                 ELSE [st EXCEPT !.objtype = objtype,
                                 !.names = Append(@, a.offsets \o "+" \o a.bytes),
                                 !.size = @ + size(a)]
             ELSE [st EXCEPT !.err = "NotImplementedError"]

RECURSIVE Loop(_, _, _)
Loop(st, arrays, i) ==
    IF i > Len(arrays) \/ st.err # "" THEN st
    ELSE Loop(LoopStep(st, arrays[i]), arrays, i + 1)

\* the two modes exchanged
ModeSwapped(ordered) == IF ordered THEN "interleave" ELSE "append"

\* if ordered: mode = 'append' else: mode = 'interleave'
Mode(ordered) == IF ordered THEN "append" ELSE "interleave"

\* segments of the executor's reply to a concatenate command
ConcatReplySegs(cmd) == IF cmd[3] = "str" THEN 2 ELSE 1

concatenate_body(ctx, arrays, ordered) ==
    LET mode == Mode(ordered) IN
    IF Len(arrays) < 1 THEN Ret(Raise(ctx, "ValueError"), <<>>)
    ELSE IF Len(arrays) = 1 THEN Ret(ctx, <<arrays[1]>>)
    ELSE IF HasAttr(arrays[1], "concatenate")
    THEN CategoricalConcatenate(ctx, arrays[1], Tail(arrays), ordered)
    ELSE LET st == Loop(LoopInit, arrays, 1) IN
         IF st.err # "" THEN Ret(Raise(ctx, st.err), <<>>)
         ELSE IF st.size = 0 THEN
             IF st.objtype = "pdarray" THEN zeros_like(ctx, arrays[1])
             ELSE Ret(ctx, <<arrays[1]>>)
         ELSE LET cmd == <<"concatenate", ToString(Len(arrays)), st.objtype, mode>> \o st.names
                  r   == generic_msg(ctx, cmd, ConcatReplySegs(cmd))
                  v   == SrvConcat([i \in 1..Len(arrays) |-> arrays[i].val], mode, ctx.policy)
              IN  IF r.ctx.err # "" THEN Ret(r.ctx, <<>>)
                  ELSE IF st.objtype = "pdarray"
                  THEN IF Len(r.rep) # 1 THEN Ret(Raise(r.ctx, "ValueError"), <<>>)
                       ELSE Ret(r.ctx, <<create_pdarray(r.rep[1], st.dtype, v)>>)
                  ELSE IF Len(r.rep) # 2 THEN Ret(Raise(r.ctx, "TypeError"), <<>>)
                       ELSE Ret(r.ctx, <<Strings(r.rep[1], r.rep[2], v)>>)

\* @typechecked ... -> Union[pdarray,Strings]: the value returned is checked
concatenate(ctx, arrays, ordered) ==
    IF ctx.err # "" THEN Ret(ctx, <<>>)
    ELSE LET r == concatenate_body(ctx, arrays, ordered)
         IN  IF r.ctx.err = "" /\ ~IsPdarray(Out1(r)) /\ ~IsStrings(Out1(r))
             THEN Ret(Raise(r.ctx, "TypeError"), <<>>)
             ELSE r

---------------------------------------------------------------------------
(* Local variables of a composition: m.h maps a variable of the Python     *)
(* function to the handle it holds, m.ctx is the executor as the call has  *)
(* left it.  Each step is one statement or sub-expression of the source.   *)

Env(ctx, pda1, pda2) == [ctx |-> ctx, h |-> ("pda1" :> pda1) @@ ("pda2" :> pda2)]

Bind(m, dst, r) == [ctx |-> r.ctx, h |-> (dst :> Out1(r)) @@ m.h]

\* dst = unique(src)
S_unique(m, dst, src) == Bind(m, dst, unique(m.ctx, m.h[src], FALSE))
\* dst = concatenate((a, b))
S_concat2(m, dst, a, b) == Bind(m, dst, concatenate(m.ctx, <<m.h[a], m.h[b]>>, TRUE))
\* dst = concatenate((a, b, c))
S_concat3(m, dst, a, b, c) ==
    Bind(m, dst, concatenate(m.ctx, <<m.h[a], m.h[b], m.h[c]>>, TRUE))
\* dst = argsort(src)
S_argsort(m, dst, src) == Bind(m, dst, argsort(m.ctx, m.h[src]))
\* dst = src[key]
S_index(m, dst, src, key) == Bind(m, dst, Index(m.ctx, m.h[src], m.h[key]))
\* dst = src[1:]
S_tail(m, dst, src) == Bind(m, dst, SliceTail(m.ctx, m.h[src]))
\* dst = src[:-1]
S_front(m, dst, src) == Bind(m, dst, SliceFront(m.ctx, m.h[src]))
\* dst = a <opname> b
S_binop(m, dst, opname, a, b) == Bind(m, dst, BinOp(m.ctx, opname, m.h[a], m.h[b]))
\* dst = array([v])
S_array(m, dst, v) == Bind(m, dst, array(m.ctx, v))
\* dst = in1d(a, b, invert=invert)
S_in1d(m, dst, a, b, invert) == Bind(m, dst, in1d(m.ctx, m.h[a], m.h[b], invert))

\* return m.h[v]
Return1(m, v) == Ret(m.ctx, <<m.h[v]>>)
\* return m.h[v], exposing the sorted merge and the mask/flag array
Return2(m, v, aux, flg) ==
    [ctx |-> m.ctx, out |-> <<m.h[v]>>, loc |-> [aux |-> m.h[aux].val, flag |-> m.h[flg].val]]

---------------------------------------------------------------------------
(* union1d, intersect1d, setdiff1d, setxor1d *)

\* @typechecked: both operands must be pdarray
TypeChecked(pda1, pda2) == IsPdarray(pda1) /\ IsPdarray(pda2)

\* create_pdarray(generic_msg(cmd)) of an integer fast path
FastPath(ctx, cmd, v) ==
    LET r == generic_msg(ctx, cmd, 1)
    IN  IF r.ctx.err # "" THEN Ret(r.ctx, <<>>)
        ELSE Ret(r.ctx, <<create_pdarray(r.rep[1], "int64", v)>>)

SetOf(pda) == ValSet(pda.val)

\* if not assume_unique: pda1 = unique(pda1); pda2 = unique(pda2)
Dedup(m, assume_unique) ==
    IF assume_unique THEN m
    ELSE S_unique(S_unique(m, "pda1", "pda1"), "pda2", "pda2")

\* unique(concatenate((unique(pda1), unique(pda2))))
union1d_local(m) ==
    LET m1 == S_unique(m, "u1", "pda1")
        m2 == S_unique(m1, "u2", "pda2")
        m3 == S_concat2(m2, "c", "u1", "u2")
        m4 == S_unique(m3, "u", "c")
    IN  Return1(m4, "u")

\* union1d without its integer fast path
union1d_noFastPath(ctx, pda1, pda2) ==
    IF ~TypeChecked(pda1, pda2) THEN Ret(Raise(ctx, "TypeError"), <<>>)
    ELSE IF size(pda1) = 0 THEN Ret(ctx, <<pda2>>)
    ELSE IF size(pda2) = 0 THEN Ret(ctx, <<pda1>>)
    ELSE union1d_local(Env(ctx, pda1, pda2))

union1d(ctx, pda1, pda2) ==
    IF ~TypeChecked(pda1, pda2) THEN Ret(Raise(ctx, "TypeError"), <<>>)
    ELSE IF size(pda1) = 0 THEN Ret(ctx, <<pda2>>)
    ELSE IF size(pda2) = 0 THEN Ret(ctx, <<pda1>>)
    ELSE IF IsInt(pda1) /\ IsInt(pda2)
    THEN FastPath(ctx, <<"union1d", pda1.name, pda2.name>>,
                  SortedSeq(SetOf(pda1) \cup SetOf(pda2)))
    ELSE union1d_local(Env(ctx, pda1, pda2))

\* aux = concatenate((pda1, pda2)); aux_sort_indices = argsort(aux);
\* aux = aux[aux_sort_indices]
SortedMerge(m) ==
    LET m1 == S_concat2(m, "aux", "pda1", "pda2")
        m2 == S_argsort(m1, "aux_sort_indices", "aux")
    IN  S_index(m2, "aux", "aux", "aux_sort_indices")

\* a mask that never looks at the last adjacent pair
MaskShort(m) ==
    LET n  == size(m.h["aux"])
        m1 == Bind(m, "t1", Slice(m.ctx, m.h["aux"], 2, n - 1))
        m2 == Bind(m1, "t2", Slice(m1.ctx, m1.h["aux"], 1, n - 2))
        m3 == S_binop(m2, "eq", "==", "t1", "t2")
        m4 == S_array(m3, "f", <<0>>)
    IN  S_concat2(m4, "mask", "eq", "f")

\* mask = aux[1:] == aux[:-1]
Mask(m) ==
    LET m1 == S_tail(m, "t1", "aux")
        m2 == S_front(m1, "t2", "aux")
    IN  S_binop(m2, "mask", "==", "t1", "t2")

intersect1d_local(m, assume_unique) ==
    LET m1 == Dedup(m, assume_unique)
        m2 == SortedMerge(m1)
        m3 == Mask(m2)
        m4 == S_front(m3, "t3", "aux")
        m5 == S_index(m4, "int1d", "t3", "mask")
    IN  Return2(m5, "int1d", "aux", "mask")

\* intersect1d returning the other operand when one is empty
intersect1d_other(ctx, pda1, pda2, assume_unique) ==
    IF ~TypeChecked(pda1, pda2) THEN Ret(Raise(ctx, "TypeError"), <<>>)
    ELSE IF size(pda1) = 0 THEN Ret(ctx, <<pda2>>)
    ELSE IF size(pda2) = 0 THEN Ret(ctx, <<pda1>>)
    ELSE IF IsInt(pda1) /\ IsInt(pda2)
    THEN FastPath(ctx, <<"intersect1d", pda1.name, pda2.name, PyBool(assume_unique)>>,
                  SortedSeq(SetOf(pda1) \cap SetOf(pda2)))
    ELSE intersect1d_local(Env(ctx, pda1, pda2), assume_unique)

intersect1d(ctx, pda1, pda2, assume_unique) ==
    IF ~TypeChecked(pda1, pda2) THEN Ret(Raise(ctx, "TypeError"), <<>>)
    ELSE IF size(pda1) = 0 THEN Ret(ctx, <<pda1>>)
    ELSE IF size(pda2) = 0 THEN Ret(ctx, <<pda2>>)
    ELSE IF IsInt(pda1) /\ IsInt(pda2)
    THEN FastPath(ctx, <<"intersect1d", pda1.name, pda2.name, PyBool(assume_unique)>>,
                  SortedSeq(SetOf(pda1) \cap SetOf(pda2)))
    ELSE intersect1d_local(Env(ctx, pda1, pda2), assume_unique)

\* return pda1[in1d(pda1, pda2, invert=True)]
setdiff1d_local(m, assume_unique) ==
    LET m1 == Dedup(m, assume_unique)
        m2 == S_in1d(m1, "mask", "pda1", "pda2", TRUE)
        m3 == S_index(m2, "diff", "pda1", "mask")
    IN  Return1(m3, "diff")

setdiff1d(ctx, pda1, pda2, assume_unique) ==
    IF ~TypeChecked(pda1, pda2) THEN Ret(Raise(ctx, "TypeError"), <<>>)
    ELSE IF size(pda1) = 0 THEN Ret(ctx, <<pda1>>)
    ELSE IF size(pda2) = 0 THEN Ret(ctx, <<pda1>>)
    ELSE IF IsInt(pda1) /\ IsInt(pda2)
    THEN FastPath(ctx, <<"setdiff1d", pda1.name, pda2.name, PyBool(assume_unique)>>,
                  SortedSeq(SetOf(pda1) \ SetOf(pda2)))
    ELSE setdiff1d_local(Env(ctx, pda1, pda2), assume_unique)

\* a flag array that opens with False
XorFlagLeadFalse(m) ==
    LET m1 == S_array(m, "true1", <<0>>)
        m2 == S_tail(m1, "t1", "aux")
        m3 == S_front(m2, "t2", "aux")
        m4 == S_binop(m3, "ne", "!=", "t1", "t2")
        m5 == S_array(m4, "true2", <<1>>)
    IN  S_concat3(m5, "flag", "true1", "ne", "true2")

\* flag = concatenate((array([True]), aux[1:] != aux[:-1], array([True])))
XorFlag(m) ==
    LET m1 == S_array(m, "true1", <<1>>)
        m2 == S_tail(m1, "t1", "aux")
        m3 == S_front(m2, "t2", "aux")
        m4 == S_binop(m3, "ne", "!=", "t1", "t2")
        m5 == S_array(m4, "true2", <<1>>)
    IN  S_concat3(m5, "flag", "true1", "ne", "true2")

\* return aux[flag[1:] & flag[:-1]]
setxor1d_local(m, assume_unique) ==
    LET m1 == Dedup(m, assume_unique)
        m2 == SortedMerge(m1)
        m3 == XorFlag(m2)
        m4 == S_tail(m3, "f1", "flag")
        m5 == S_front(m4, "f2", "flag")
        m6 == S_binop(m5, "keep", "&", "f1", "f2")
        m7 == S_index(m6, "xor", "aux", "keep")
    IN  Return2(m7, "xor", "aux", "flag")

setxor1d(ctx, pda1, pda2, assume_unique) ==
    IF ~TypeChecked(pda1, pda2) THEN Ret(Raise(ctx, "TypeError"), <<>>)
    ELSE IF size(pda1) = 0 THEN Ret(ctx, <<pda2>>)
    ELSE IF size(pda2) = 0 THEN Ret(ctx, <<pda1>>)
    ELSE IF IsInt(pda1) /\ IsInt(pda2)
    THEN FastPath(ctx, <<"setxor1d", pda1.name, pda2.name, PyBool(assume_unique)>>,
                  SortedSeq((SetOf(pda1) \ SetOf(pda2)) \cup (SetOf(pda2) \ SetOf(pda1))))
    ELSE setxor1d_local(Env(ctx, pda1, pda2), assume_unique)

---------------------------------------------------------------------------
(* One action per public operation: a whole call *)

NoLocals == [aux |-> <<>>, flag |-> <<>>]

Init ==
    /\ op = "none" /\ args = <<>> /\ flag = FALSE
    /\ cmds = <<>> /\ created = <<>> /\ status = "idle"
    /\ result = <<>> /\ locals = NoLocals

Finish(name, a, f, r) ==
    /\ op' = name
    /\ args' = a
    /\ flag' = f
    /\ cmds' = r.ctx.cmds
    /\ created' = r.ctx.created
    /\ status' = IF r.ctx.err = "" THEN "ok" ELSE r.ctx.err
    /\ result' = IF r.ctx.err = "" THEN r.out ELSE <<>>
    /\ locals' = IF r.ctx.err = "" THEN r.loc ELSE NoLocals

Unique(H, F) ==
    /\ status = "idle"
    /\ \E pda \in H, return_counts \in BOOLEAN, failAt \in F, policy \in Policies :
           Finish("unique", <<pda>>, return_counts,
                  unique(Ctx0(failAt, policy), pda, return_counts))

In1d(H1, H2, F) ==
    /\ status = "idle"
    /\ \E pda1 \in H1, pda2 \in H2, invert \in BOOLEAN, failAt \in F :
           Finish("in1d", <<pda1, pda2>>, invert,
                  in1d(Ctx0(failAt, "sorted"), pda1, pda2, invert))

Concatenate(A, F) ==
    /\ status = "idle"
    /\ \E arrays \in A, ordered \in BOOLEAN, failAt \in F, policy \in Policies :
           Finish("concatenate", arrays, ordered,
                  concatenate(Ctx0(failAt, policy), arrays, ordered))

Union1d(H1, H2, F) ==
    /\ status = "idle"
    /\ \E pda1 \in H1, pda2 \in H2, failAt \in F, policy \in Policies :
           Finish("union1d", <<pda1, pda2>>, FALSE,
                  union1d(Ctx0(failAt, policy), pda1, pda2))

Intersect1d(H1, H2, F) ==
    /\ status = "idle"
    /\ \E pda1 \in H1, pda2 \in H2, assume_unique \in BOOLEAN, failAt \in F, policy \in Policies :
           Finish("intersect1d", <<pda1, pda2>>, assume_unique,
                  intersect1d(Ctx0(failAt, policy), pda1, pda2, assume_unique))

Setdiff1d(H1, H2, F) ==
    /\ status = "idle"
    /\ \E pda1 \in H1, pda2 \in H2, assume_unique \in BOOLEAN, failAt \in F, policy \in Policies :
           Finish("setdiff1d", <<pda1, pda2>>, assume_unique,
                  setdiff1d(Ctx0(failAt, policy), pda1, pda2, assume_unique))

Setxor1d(H1, H2, F) ==
    /\ status = "idle"
    /\ \E pda1 \in H1, pda2 \in H2, assume_unique \in BOOLEAN, failAt \in F, policy \in Policies :
           Finish("setxor1d", <<pda1, pda2>>, assume_unique,
                  setxor1d(Ctx0(failAt, policy), pda1, pda2, assume_unique))

\* the caller takes the outcome; the client is ready for the next call
Return ==
    /\ status # "idle"
    /\ op' = "none" /\ args' = <<>> /\ flag' = FALSE
    /\ cmds' = <<>> /\ created' = <<>> /\ status' = "idle"
    /\ result' = <<>> /\ locals' = NoLocals

\* the lists concatenate is called with
CatLists == UNION {ExactLists(k, MaxCatLen, MaxCatVal) : k \in 0..MaxArrays}

\* calls in which every command succeeds
Next ==
    \/ Union1d(SetIn(1, MaxLen, MaxVal), SetIn(2, MaxLen, MaxVal), {0})
    \/ Intersect1d(SetIn(1, MaxLen, MaxVal), SetIn(2, MaxLen, MaxVal), {0})
    \/ Setdiff1d(SetIn(1, MaxLen, MaxVal), SetIn(2, MaxLen, MaxVal), {0})
    \/ Setxor1d(SetIn(1, MaxLen, MaxVal), SetIn(2, MaxLen, MaxVal), {0})
    \/ In1d(AnyIn(1, MaxLen, MaxVal), AnyIn(2, MaxLen, MaxVal), {0})
    \/ Unique(AnyIn(1, MaxLen, MaxVal), {0})
    \/ Concatenate(CatLists, {0})
    \/ Return

Spec == Init /\ [][Next]_vars

\* calls in which the executor may fail any one command
FailPoints == 0..MaxFailPoint
FailIn(i) == AnyIn(i, MaxFailLen, MaxFailVal)
\* two arrays are the fewest for which concatenate submits a command
FailLists == UNION {ExactLists(k, MaxFailLen, MaxFailVal) : k \in 0..2}

NextFail ==
    \/ Union1d(FailIn(1), FailIn(2), FailPoints)
    \/ Intersect1d(FailIn(1), FailIn(2), FailPoints)
    \/ Setdiff1d(FailIn(1), FailIn(2), FailPoints)
    \/ Setxor1d(FailIn(1), FailIn(2), FailPoints)
    \/ In1d(FailIn(1), FailIn(2), FailPoints)
    \/ Unique(FailIn(1), FailPoints)
    \/ Concatenate(FailLists, FailPoints)
    \/ Return

SpecFail == Init /\ [][NextFail]_vars

---------------------------------------------------------------------------
(* Vocabulary of the properties *)

BinaryOps == {"in1d", "union1d", "intersect1d", "setdiff1d", "setxor1d"}
SetOps == {"union1d", "intersect1d", "setdiff1d", "setxor1d"}

Called(name) == op = name /\ status # "idle"
Ok == status = "ok"
Failed == status \notin {"idle", "ok"}
\* errors raised by the client itself; RuntimeError is the executor's failure
ValidationErrors == {"TypeError", "ValueError", "NotImplementedError", "AttributeError"}

StrictlyAscending(v) == \A i \in 1..(Len(v) - 1) : v[i] < v[i + 1]
Ascending(v) == \A i \in 1..(Len(v) - 1) : v[i] <= v[i + 1]

BothPdarray == Len(args) = 2 /\ IsPdarray(args[1]) /\ IsPdarray(args[2])
BothNonEmpty == Len(args) = 2 /\ size(args[1]) > 0 /\ size(args[2]) > 0
\* the local-composition path of a set operation: non-empty, non-integer
\* operands of one dtype
LocalPath == BothPdarray /\ BothNonEmpty /\ args[1].dtype = args[2].dtype /\ ~IsInt(args[1])

---------------------------------------------------------------------------
(* C1 *)

\* C1 (as stated): a binary operation called with two non-empty handles
\* whose element-kind tags differ ends in a type error and submits no
\* command.
C1_TagMismatchTypeError ==
    (op \in BinaryOps /\ status # "idle" /\ BothNonEmpty /\ args[1].dtype # args[2].dtype)
        => (status = "TypeError" /\ cmds = <<>>)

PdarrayWithStrings ==
    /\ Len(args) = 2
    /\ {args[1].objtype, args[2].objtype} = {"pdarray", "str"}

\* C1 (amended): a binary operation called with one pdarray and one Strings
\* operand, both non-empty, ends in TypeError with no command submitted;
\* called with two non-empty pdarrays of differing dtype it never ends in
\* TypeError, and in1d, union1d and setdiff1d have submitted commands.
C1_HandleKindMismatch ==
    (op \in BinaryOps /\ status # "idle" /\ BothNonEmpty)
        => /\ PdarrayWithStrings => (status = "TypeError" /\ cmds = <<>>)
           /\ (BothPdarray /\ args[1].dtype # args[2].dtype)
                  => /\ status # "TypeError"
                     /\ op \in {"in1d", "union1d", "setdiff1d"} => cmds # <<>>

C1_Witness ==
    /\ Called("in1d") /\ BothNonEmpty
    /\ IsPdarray(args[1]) /\ IsStrings(args[2])
    /\ status = "TypeError"

---------------------------------------------------------------------------
(* C2 *)

ShortCircuit(name) ==
    IF name \in {"union1d", "setxor1d"}
    THEN IF size(args[1]) = 0 THEN args[2] ELSE args[1]
    ELSE IF name = "intersect1d"
    THEN IF size(args[1]) = 0 THEN args[1] ELSE args[2]
    ELSE args[1]

---------------------------------------------------------------------------
(* C3 *)

\* C3: for numeric arrays of one dtype, empty or not, union1d returns the
\* sorted, duplicate-free array of exactly the values in pda1 or pda2.
C3_UnionSortedUnique ==
    (Called("union1d") /\ BothPdarray /\ args[1].dtype = args[2].dtype)
        => /\ Ok
           /\ StrictlyAscending(result[1].val)
           /\ SetOf(result[1]) = SetOf(args[1]) \cup SetOf(args[2])

---------------------------------------------------------------------------
(* C4 *)

\* C4: for numeric arrays of one dtype and assume_unique=False, setdiff1d
\* returns the sorted, duplicate-free array of exactly the values of pda1
\* that do not occur in pda2.
C4_SetdiffSortedUnique ==
    (Called("setdiff1d") /\ BothPdarray /\ args[1].dtype = args[2].dtype /\ ~flag)
        => /\ Ok
           /\ StrictlyAscending(result[1].val)
           /\ SetOf(result[1]) = SetOf(args[1]) \ SetOf(args[2])

---------------------------------------------------------------------------
(* C5 *)

\* C5: on the local-composition path with assume_unique=False, intersect1d
\* returns exactly the values present in both operands, sorted ascending
\* with no duplicates; no common value is missed, the largest element of
\* the merged array included.
C5_IntersectLocal ==
    (Called("intersect1d") /\ LocalPath /\ ~flag)
        => /\ Ok
           /\ StrictlyAscending(result[1].val)
           /\ SetOf(result[1]) = SetOf(args[1]) \cap SetOf(args[2])

C5_Witness ==
    /\ Called("intersect1d") /\ LocalPath /\ ~flag /\ Ok
    /\ Len(locals.aux) >= 3
    /\ locals.aux[Len(locals.aux)] \in SetOf(result[1])
    /\ Len(result[1].val) < Cardinality(SetOf(args[1]) \cup SetOf(args[2]))

---------------------------------------------------------------------------
(* C6 *)

\* C6 (as stated): whenever a call of a public operation fails, no array
\* handle has been created on the executor by an earlier command of the call.
C6_NoPartialResults == Failed => created = <<>>

\* commands of the call the executor carried out
Succeeded == Len(cmds) - (IF status = "RuntimeError" THEN 1 ELSE 0)

\* calls that submit at most one command: unique, in1d, an integer fast
\* path, and concatenate unless it hands over to its first element
AtMostOneCommand ==
    \/ op \in {"unique", "in1d"}
    \/ op = "concatenate" /\ (Len(args) < 2 \/ ~HasAttr(args[1], "concatenate"))
    \/ op \in SetOps /\ Len(args) = 2 /\ IsInt(args[1]) /\ IsInt(args[2])

\* C6 (amended): a failing call has created no handle exactly when none of its
\* commands had succeeded before the failure; that is so in every failing
\* call of unique, in1d, an integer fast path, and concatenate of pdarrays or
\* Strings.  On a local-composition path a later failure leaves behind the
\* handles the earlier commands created.
C6_NoHandleIffNoCommandSucceeded ==
    Failed => /\ (created = <<>>) <=> (Succeeded = 0)
              /\ AtMostOneCommand => created = <<>>

C6_Witness ==
    /\ Called("intersect1d") /\ status = "RuntimeError"
    /\ Len(cmds) >= 2 /\ created # <<>>

---------------------------------------------------------------------------
(* C7 *)

\* C7: for every accepted input kind, unique returns a pair (values, counts)
\* when return_counts is True and the values alone when it is False, and the
\* caller's return_counts is the flag transmitted in the command.
C7_ReturnCountsHonoured ==
    (Called("unique") /\ Ok)
        => /\ Len(result) = (IF flag THEN 2 ELSE 1)
           /\ flag => (IsPdarray(result[2])
                         /\ result[2].val = SrvCounts(args[1].val, result[1].val))
           /\ cmds[1][Len(cmds[1])] = PyBool(flag)

---------------------------------------------------------------------------
(* C8 *)

MatchingPair ==
    /\ Len(args) = 2
    /\ \/ IsPdarray(args[1]) /\ IsPdarray(args[2])
       \/ IsStrings(args[1]) /\ IsStrings(args[2])
       \/ HasAttr(args[1], "in1d")

\* C8: for every matching pair of handles, in1d(a, b, invert) returns a
\* boolean array as long as a whose element i is true iff a[i] occurs in b
\* when invert is False, and the negation of that when invert is True.
C8_In1dInvert ==
    (Called("in1d") /\ MatchingPair)
        => /\ Ok
           /\ result[1].dtype = "bool"
           /\ Len(result[1].val) = size(args[1])
           /\ \A i \in 1..size(args[1]) :
                  (result[1].val[i] = 1) <=> ((args[1].val[i] \in SetOf(args[2])) # flag)

---------------------------------------------------------------------------
(* C9 *)

IdOf(h) == IF IsStrings(h) THEN h.offsets \o "+" \o h.bytes ELSE h.name

TotalSize == Len(Flatten([i \in 1..Len(args) |-> args[i].val]))

\* every element is a pdarray of the first one's dtype, or every element is
\* a Strings
Homogeneous ==
    \/ \A i \in 1..Len(args) : IsPdarray(args[i]) /\ args[i].dtype = args[1].dtype
    \/ \A i \in 1..Len(args) : IsStrings(args[i])

ConcatCommand ==
    <<"concatenate", ToString(Len(args)), args[1].objtype,
      IF flag THEN "append" ELSE "interleave">> \o [i \in 1..Len(args) |-> IdOf(args[i])]

ConcatContract ==
    /\ status \in ValidationErrors => cmds = <<>>
    /\ Len(args) = 0 => status = "ValueError"
    /\ Len(args) = 1 => (Ok /\ cmds = <<>> /\ result = args)
    /\ (Len(args) >= 2 /\ \E i \in 1..Len(args) : ~IsPdarray(args[i]) /\ ~IsStrings(args[i]))
           => status \in ValidationErrors
    /\ (Len(args) >= 2 /\ ~Homogeneous) => status \in ValidationErrors
    /\ (Len(args) >= 2 /\ Homogeneous /\ TotalSize = 0)
           => /\ Ok /\ cmds = <<>>
              /\ IsPdarray(args[1])
                     => (result[1].dtype = args[1].dtype /\ result[1].val = <<>>)
              /\ IsStrings(args[1]) => result = <<args[1]>>
    /\ (Len(args) >= 2 /\ Homogeneous /\ TotalSize > 0)
           => (Ok /\ cmds = <<ConcatCommand>>)

---------------------------------------------------------------------------
(* C10 *)

SymDiff(A, B) == (A \ B) \cup (B \ A)

\* C10: on the local-composition path with assume_unique=False, setxor1d
\* builds over the sorted merge of unique(A) and unique(B), of length n, a
\* flag array of length n+1 with flag[0] = flag[n] = true and
\* flag[i] = (sorted[i-1] != sorted[i]) inside, keeps position i iff flag[i]
\* and flag[i+1], and so returns exactly the values in one operand but not
\* both, sorted ascending with no duplicates.
C10_SetxorLocal ==
    (Called("setxor1d") /\ LocalPath /\ ~flag)
        => LET aux == locals.aux
               f   == locals.flag
               n   == Len(aux)
           IN  /\ Ok
               /\ Ascending(aux)
               /\ n = Cardinality(SetOf(args[1])) + Cardinality(SetOf(args[2]))
               /\ Len(f) = n + 1
               /\ f[1] = 1 /\ f[n + 1] = 1
               /\ \A i \in 2..n : (f[i] = 1) <=> (aux[i - 1] # aux[i])
               /\ result[1].val =
                      Compress(aux, [i \in 1..n |-> B2I(f[i] = 1 /\ f[i + 1] = 1)])
               /\ StrictlyAscending(result[1].val)
               /\ SetOf(result[1]) = SymDiff(SetOf(args[1]), SetOf(args[2]))

C10_Witness ==
    /\ Called("setxor1d") /\ LocalPath /\ ~flag /\ Ok
    /\ Len(locals.aux) >= 3
    /\ Len(result[1].val) >= 1
    /\ locals.aux[1] \in SetOf(result[1])
    /\ SetOf(args[1]) \cap SetOf(args[2]) # {}

====
